---- MODULE Spec2Model ----
(***************************************************************************)
(* Model of app_Version3.py, the Streamlit dashboard of the early-warning  *)
(* system for HIV outbreaks.  The script is re-run from top to bottom on   *)
(* the first page load and after every change of a sidebar widget; one     *)
(* action of the model is one such run.                                    *)
(*                                                                         *)
(* Numbers.  Case counts of the historical file are integers.  A predicted *)
(* case count is a fixed-point number with PredScale steps per unit, so    *)
(* that int(...) of line 193 is a real truncation.  The float results of   *)
(* the script are kept exactly: a mean is the pair <<sum, n>>, a standard  *)
(* deviation is kept as its square <<num, den>> (or NaN), and              *)
(* `desviaciones` is kept as its square <<num, den>>.  Floating-point      *)
(* rounding is not modelled.                                               *)
(***************************************************************************)
EXTENDS Integers, Sequences, FiniteSets, TLC

VARIABLES
    csv_pred,               \* rows of predicciones_alerta_vih_2025_2030_simulado.csv
    csv_hist,               \* rows of DATASET_VIH.csv, cells as read
    df_pred, df_hist,       \* the frames load_data returns
    year, departamento, sexo,   \* the sidebar selection
    outcome,                \* how the run ended
    mensajes,               \* the messages (st.error, st.warning) of the run
    current_pred, hist_data, df_completo, prom_hist,
    casos_pred, prom_hist_pred, alerta, diferencia, porcentaje,
    casos_min, casos_max, casos_avg, casos_std,
    desviaciones, riesgo, estado,
    available_years_dept, anios_con_datos

vars == << csv_pred, csv_hist, df_pred, df_hist, year, departamento, sexo,
           outcome, mensajes, current_pred, hist_data, df_completo, prom_hist,
           casos_pred, prom_hist_pred, alerta, diferencia, porcentaje,
           casos_min, casos_max, casos_avg, casos_std, desviaciones, riesgo,
           estado, available_years_dept, anios_con_datos >>

(***************************************************************************)
(* Bounds of the input files.                                              *)
(***************************************************************************)
PredScale == 2          \* fixed-point steps per case of a predicted count
MaxPredScaled == 11     \* largest predicted count, in steps (5.5 cases)
MaxPromHist == 2        \* largest PromHist of a forecast row
MaxCasos == 2           \* largest historical case count
MaxPredRows == 4        \* most rows of a forecast file with many keys

Departamentos == {"Cusco", "Lima"}
Sexos == {"F", "M"}
PredYears == {2025, 2026, 2027}
HistYears == {2022, 2023, 2024}
CasosVals == (-1)..MaxCasos       \* a negative count is a malformed row

\* A variable of the script holds None until a run assigns it and Some(v)
\* once it holds v.
None == <<>>
Some(v) == <<v>>
Val(x) == x[1]

NaN == <<"NaN">>        \* the float NaN

(***************************************************************************)
(* Sequence helpers (pandas / builtin operations).                         *)
(***************************************************************************)
RECURSIVE Sum(_)
Sum(s) == IF s = <<>> THEN 0 ELSE Head(s) + Sum(Tail(s))

RECURSIVE SumSq(_)
SumSq(s) == IF s = <<>> THEN 0 ELSE Head(s) * Head(s) + SumSq(Tail(s))

SeqMin(s) == CHOOSE m \in {s[i] : i \in 1..Len(s)} :
                 \A i \in 1..Len(s) : m <= s[i]

SeqMax(s) == CHOOSE m \in {s[i] : i \in 1..Len(s)} :
                 \A i \in 1..Len(s) : m >= s[i]

\* Series.unique(): the distinct values in order of first appearance
RECURSIVE Unique(_)
Unique(s) ==
    IF s = <<>> THEN <<>>
    ELSE LET front == Unique(SubSeq(s, 1, Len(s) - 1))
             last == s[Len(s)]
         IN IF \E i \in 1..Len(front) : front[i] = last
            THEN front ELSE Append(front, last)

\* sorted(...) of a list of integers or strings without duplicates
RECURSIVE SortedInts(_)
SortedInts(S) ==
    IF S = {} THEN <<>>
    ELSE LET m == CHOOSE x \in S : \A z \in S : x <= z
         IN <<m>> \o SortedInts(S \ {m})

StrRank(x) == CASE x = "Cusco" -> 1 [] x = "Lima" -> 2
                [] x = "F" -> 1 [] x = "M" -> 2

RECURSIVE SortedStrs(_)
SortedStrs(S) ==
    IF S = {} THEN <<>>
    ELSE LET m == CHOOSE x \in S : \A z \in S : StrRank(x) <= StrRank(z)
         IN <<m>> \o SortedStrs(S \ {m})

Range(s) == {s[i] : i \in 1..Len(s)}

Column(df, col) == [i \in 1..Len(df) |-> df[i][col]]

\* DataFrame.sort_values('Anio'): for frames of fewer than 16 rows numpy's
\* default sort is an insertion sort, which keeps equal keys in row order
RECURSIVE InsertByAnio(_, _)
InsertByAnio(sorted, row) ==
    IF sorted = <<>> THEN <<row>>
    ELSE IF sorted[Len(sorted)].Anio <= row.Anio THEN Append(sorted, row)
    ELSE Append(InsertByAnio(SubSeq(sorted, 1, Len(sorted) - 1), row),
                sorted[Len(sorted)])

RECURSIVE SortByAnio(_)
SortByAnio(df) ==
    IF df = <<>> THEN <<>>
    ELSE InsertByAnio(SortByAnio(SubSeq(df, 1, Len(df) - 1)), df[Len(df)])

(***************************************************************************)
(* The two CSV files.  A forecast row carries its predicted count in       *)
(* fixed-point steps; a historical cell is <<v>> when it reads as the      *)
(* number v and <<>> when it does not read as a number.                    *)
(***************************************************************************)
PredRow(y, d, s, h, m, a) ==
    [Anio |-> y, Departamento |-> d, Sexo |-> s,
     CasosEstimados_Predichos |-> h, PromHist |-> m, Alerta |-> a]

HistRow(y, d, s, c) ==
    [Anio |-> y, Departamento |-> d, Sexo |-> s, CasosEstimados |-> c]

\* the frame of the rows f[1], ..., f[n]
RECURSIVE Rows(_, _)
Rows(n, f) == IF n = 0 THEN <<>> ELSE Append(Rows(n - 1, f), f[n])

Cells == {<<v>> : v \in CasosVals} \cup {<<>>}

RECURSIVE Reverse(_)
Reverse(s) == IF s = <<>> THEN <<>> ELSE Append(Reverse(Tail(s)), Head(s))

\* every (Departamento, Sexo, Anio) key of the forecast file, in file order:
\* by Departamento and Sexo, the latest year first
PredKeys ==
    LET ds == SortedStrs(Departamentos)
        ss == SortedStrs(Sexos)
        ys == Reverse(SortedInts(PredYears))
        ns == Len(ss)
        ny == Len(ys)
    IN [i \in 1..(Len(ds) * ns * ny) |->
           << ds[((i - 1) \div (ns * ny)) + 1],
              ss[(((i - 1) \div ny) % ns) + 1],
              ys[((i - 1) % ny) + 1] >>]

GroupKeys ==
    LET ds == SortedStrs(Departamentos)
        ss == SortedStrs(Sexos)
        ns == Len(ss)
    IN [i \in 1..(Len(ds) * ns) |->
           << ds[((i - 1) \div ns) + 1], ss[((i - 1) % ns) + 1] >>]

\* Files with many keys and plain values: up to MaxPredRows forecast keys,
\* one row per key, and at most one historical row per (Departamento, Sexo).
WidePredFiles ==
    { LET keys == SelectSeq(PredKeys, LAMBDA k : k \in K)
      IN Rows(Len(keys), [i \in 1..Len(keys) |->
             PredRow(keys[i][3], keys[i][1], keys[i][2], PredScale, 1, FALSE)])
      : K \in {J \in SUBSET Range(PredKeys) : Cardinality(J) <= MaxPredRows} }

WideHistFiles ==
    { LET keys == SelectSeq(GroupKeys, LAMBDA k : k \in K)
      IN Rows(Len(keys), [i \in 1..Len(keys) |->
             HistRow(2024, keys[i][1], keys[i][2], <<1>>)])
      : K \in SUBSET Range(GroupKeys) }

\* Files with one key and many values: one forecast row for (2025, Lima, F)
\* and any cells for the historical years of (Lima, F), in either row order.
DeepPredFiles ==
    { << PredRow(2025, "Lima", "F", h, m, a) >> :
        h \in 0..MaxPredScaled, m \in 0..MaxPromHist, a \in BOOLEAN }

DeepHistFiles ==
    UNION { UNION { LET ys == SortedInts(Y)
                        rows == Rows(Len(ys), [i \in 1..Len(ys) |->
                                    HistRow(ys[i], "Lima", "F", f[ys[i]])])
                    IN {rows, Reverse(rows)}
                    : f \in [Y -> Cells] }
            : Y \in SUBSET HistYears }

Files == (WidePredFiles \X WideHistFiles) \cup (DeepPredFiles \X DeepHistFiles)

(***************************************************************************)
(* load_data (lines 8-27) and the emptiness check of lines 32-34.          *)
(***************************************************************************)
\* pd.to_numeric(..., errors='coerce'): a cell that is no number becomes NaN
to_numeric(cell) == IF Len(cell) = 1 THEN cell[1] ELSE NaN

\* dropna(subset=['CasosEstimados']) after to_numeric: the NaN rows go, every
\* other row stays, whatever its sign
CleanHist(rows) ==
    LET kept == SelectSeq(rows, LAMBDA r : Len(r.CasosEstimados) = 1)
    IN Rows(Len(kept), [i \in 1..Len(kept) |->
           HistRow(kept[i].Anio, kept[i].Departamento, kept[i].Sexo,
                   to_numeric(kept[i].CasosEstimados))])

load_data(cp, ch, readable) ==
    IF readable
    THEN [pred |-> cp, hist |-> CleanHist(ch), error |-> FALSE]
    ELSE [pred |-> <<>>, hist |-> <<>>, error |-> TRUE]

(***************************************************************************)
(* The sidebar options (lines 100-102).                                    *)
(***************************************************************************)
available_years(dfp) == SortedInts(Range(Column(dfp, "Anio")))
available_departments(dfp) == SortedStrs(Range(Column(dfp, "Departamento")))
available_sex(dfp) == SortedStrs(Range(Column(dfp, "Sexo")))

(***************************************************************************)
(* The data functions (lines 150-183).                                     *)
(***************************************************************************)
get_current_prediction(dfp, y, d, s) ==
    SelectSeq(dfp, LAMBDA r : r.Anio = y /\ r.Departamento = d /\ r.Sexo = s)

get_historical_data(dfh, d, s) ==
    SortByAnio(SelectSeq(dfh, LAMBDA r : r.Departamento = d /\ r.Sexo = s))

\* the frame line 188 hands to prepare_combined_data as pred_data
PredOfDepartamento(dfp, d) == SelectSeq(dfp, LAMBDA r : r.Departamento = d)

FusedPoint(y, c, t) == [Anio |-> y, Casos |-> c, Tipo |-> t]

\* a fusion that drops the forecast rows
prepare_combined_data_HistOnly(hist, pred) ==
    LET df_hist_viz == Rows(Len(hist), [i \in 1..Len(hist) |->
            FusedPoint(hist[i].Anio, <<hist[i].CasosEstimados, 1>>, "Historico")])
        casos == [i \in 1..Len(hist) |-> hist[i].CasosEstimados]
    IN [df_completo |-> SortByAnio(df_hist_viz),
        prom_hist |-> IF df_hist_viz # <<>>
                      THEN <<Sum(casos), Len(casos)>> ELSE <<0, 1>>]

prepare_combined_data(hist, pred) ==
    LET df_hist_viz == Rows(Len(hist), [i \in 1..Len(hist) |->
            FusedPoint(hist[i].Anio, <<hist[i].CasosEstimados, 1>>, "Historico")])
        df_pred_viz == Rows(Len(pred), [i \in 1..Len(pred) |->
            FusedPoint(pred[i].Anio,
                       <<pred[i].CasosEstimados_Predichos, PredScale>>,
                       "Prediccion")])
        casos == [i \in 1..Len(hist) |-> hist[i].CasosEstimados]
    IN [df_completo |-> SortByAnio(df_hist_viz \o df_pred_viz),
        prom_hist |-> IF df_hist_viz # <<>>
                      THEN <<Sum(casos), Len(casos)>> ELSE <<0, 1>>]

(***************************************************************************)
(* The evaluation of the selected forecast row (lines 193-199, 349-383).   *)
(***************************************************************************)
\* int(x) truncates towards zero
IntTrunc(h) == IF h >= 0 THEN h \div PredScale ELSE -((-h) \div PredScale)

\* the difference taken the other way round
Diferencia_Swapped(cp, php) == php - cp

Diferencia(cp, php) == cp - php

PctFactor == 100

\* the percentage without the guard of line 199
Porcentaje_Unguarded(dif, php) == <<dif * PctFactor, php>>

Porcentaje(dif, php) == IF php # 0 THEN <<dif * PctFactor, php>> ELSE <<0, 1>>

Mean(xs) == <<Sum(xs), Len(xs)>>

\* Series.std(): the sample standard deviation (ddof = 1), NaN for one value;
\* kept as its square
Std(xs) ==
    LET n == Len(xs)
    IN IF n = 1 THEN NaN
       ELSE <<n * SumSq(xs) - Sum(xs) * Sum(xs), n * (n - 1)>>

\* casos_std > 0, which is False for NaN
StdPositive(std) == Len(std) = 2 /\ std[1] > 0

\* abs(casos_pred - casos_avg) / casos_std, kept as its square, or 0
Desviaciones(cp, avg, std) ==
    IF StdPositive(std)
    THEN << (avg[2] * cp - avg[1]) * (avg[2] * cp - avg[1]) * std[2],
            avg[2] * avg[2] * std[1] >>
    ELSE <<0, 1>>

UmbralModerado == 1
UmbralAlto == 2

\* desviaciones < t for a threshold t >= 0
Below(desv, t) == desv[1] < t * t * desv[2]

\* the tiers with the boundary values in the lower tier
Riesgo_BoundaryBelow(desv) ==
    IF desv[1] <= UmbralModerado * UmbralModerado * desv[2] THEN "Bajo"
    ELSE IF desv[1] <= UmbralAlto * UmbralAlto * desv[2] THEN "Moderado"
    ELSE "Alto"

Riesgo(desv) ==
    IF Below(desv, UmbralModerado) THEN "Bajo"
    ELSE IF Below(desv, UmbralAlto) THEN "Moderado"
    ELSE "Alto"

Estado(a) == IF a THEN "ALERTA" ELSE "NORMAL"

\* the years of the department, whatever the sex
AvailableYearsDept_AnySex(dfp, d, s) ==
    Unique(Column(SelectSeq(dfp, LAMBDA r : r.Departamento = d), "Anio"))

\* lines 423-429
AvailableYearsDept(dfp, d, s) ==
    Unique(Column(SelectSeq(dfp, LAMBDA r : r.Departamento = d /\ r.Sexo = s),
                  "Anio"))

AniosConDatos(ays) == SortedInts(Range(ays))

(***************************************************************************)
(* One run of the script below the sidebar (lines 186-431) for the         *)
(* selection (y, d, s).  A variable the run does not reach holds None.     *)
(* With a forecast row and no historical row for (d, s) the names          *)
(* casos_avg and casos_std are never bound (line 348 guards their          *)
(* assignment), and line 370 raises NameError: the run ends there.         *)
(***************************************************************************)
MsgLoad == "Error cargando datos"
MsgEmpty == "No se pudieron cargar los datos"
MsgNotFound == "No se encontraron datos para la combinacion seleccionada"

\* how a run ends: a page with the assessment, the not-found page, or the
\* NameError of line 370
Outcome(cur, hist) ==
    IF cur = <<>> THEN "notfound"
    ELSE IF hist = <<>> THEN "fault"
    ELSE "found"

RunScript(dfp, dfh, y, d, s) ==
    LET cur == get_current_prediction(dfp, y, d, s)
        hist == get_historical_data(dfh, d, s)
        comb == prepare_combined_data(hist, PredOfDepartamento(dfp, d))
        xs == Column(hist, "CasosEstimados")
        cp == IntTrunc(cur[1].CasosEstimados_Predichos)
        php == cur[1].PromHist
        dif == Diferencia(cp, php)
        desv == Desviaciones(cp, Mean(xs), Std(xs))
        has_pred == cur # <<>>                    \* line 191
        has_stats == cur # <<>> /\ hist # <<>>    \* lines 191 and 348
    IN /\ outcome' = Outcome(cur, hist)
       /\ year' = Some(y)
       /\ departamento' = Some(d)
       /\ sexo' = Some(s)
       \* lines 186-188
       /\ current_pred' = cur
       /\ hist_data' = hist
       /\ df_completo' = comb.df_completo
       /\ prom_hist' = Some(comb.prom_hist)
       \* lines 193-199 and 221-224
       /\ casos_pred' = IF has_pred THEN Some(cp) ELSE None
       /\ prom_hist_pred' = IF has_pred THEN Some(php) ELSE None
       /\ alerta' = IF has_pred THEN Some(cur[1].Alerta) ELSE None
       /\ diferencia' = IF has_pred THEN Some(dif) ELSE None
       /\ porcentaje' = IF has_pred THEN Some(Porcentaje(dif, php)) ELSE None
       /\ estado' = IF has_pred THEN Some(Estado(cur[1].Alerta)) ELSE None
       \* lines 348-352
       /\ casos_min' = IF has_stats THEN Some(SeqMin(xs)) ELSE None
       /\ casos_max' = IF has_stats THEN Some(SeqMax(xs)) ELSE None
       /\ casos_avg' = IF has_stats THEN Some(Mean(xs)) ELSE None
       /\ casos_std' = IF has_stats THEN Some(Std(xs)) ELSE None
       \* lines 370-383, reached only when line 370 does not raise
       /\ desviaciones' = IF has_stats THEN Some(desv) ELSE None
       /\ riesgo' = IF has_stats THEN Some(Riesgo(desv)) ELSE None
       \* lines 418-431
       /\ mensajes' = IF has_pred THEN {} ELSE {MsgNotFound}
       /\ available_years_dept' =
              IF has_pred THEN None ELSE Some(AvailableYearsDept(dfp, d, s))
       /\ anios_con_datos' =
              IF has_pred THEN None
              ELSE Some(AniosConDatos(AvailableYearsDept(dfp, d, s)))

Init ==
    /\ csv_pred = <<>>
    /\ csv_hist = <<>>
    /\ df_pred = <<>>
    /\ df_hist = <<>>
    /\ year = None
    /\ departamento = None
    /\ sexo = None
    /\ outcome = "init"
    /\ mensajes = {}
    /\ current_pred = <<>>
    /\ hist_data = <<>>
    /\ df_completo = <<>>
    /\ prom_hist = None
    /\ casos_pred = None
    /\ prom_hist_pred = None
    /\ alerta = None
    /\ diferencia = None
    /\ porcentaje = None
    /\ casos_min = None
    /\ casos_max = None
    /\ casos_avg = None
    /\ casos_std = None
    /\ desviaciones = None
    /\ riesgo = None
    /\ estado = None
    /\ available_years_dept = None
    /\ anios_con_datos = None

\* The first run: the files are read; an unreadable file or an empty frame
\* stops the script at line 34, otherwise every selectbox shows its first
\* option (index=0) and the page is rendered for it.
FirstRun ==
    /\ outcome = "init"
    /\ \E files \in Files, readable \in BOOLEAN :
        LET loaded == load_data(files[1], files[2], readable)
        IN /\ IF loaded.pred = <<>> \/ loaded.hist = <<>>
              THEN /\ outcome' = "stopped"
                   /\ mensajes' = (IF loaded.error THEN {MsgLoad} ELSE {})
                                     \cup {MsgEmpty}
                   /\ UNCHANGED << year, departamento, sexo, current_pred,
                          hist_data, df_completo, prom_hist, casos_pred,
                          prom_hist_pred, alerta, diferencia, porcentaje,
                          casos_min, casos_max, casos_avg, casos_std,
                          desviaciones, riesgo, estado, available_years_dept,
                          anios_con_datos >>
              ELSE RunScript(loaded.pred, loaded.hist,
                             available_years(loaded.pred)[1],
                             available_departments(loaded.pred)[1],
                             available_sex(loaded.pred)[1])
           /\ csv_pred' = (IF readable THEN files[1] ELSE <<>>)
           /\ csv_hist' = (IF readable THEN files[2] ELSE <<>>)
           /\ df_pred' = loaded.pred
           /\ df_hist' = loaded.hist

Rendered == outcome \in {"found", "notfound", "fault"}

\* A change of the year selectbox (lines 114-119) re-runs the script; the
\* frames come from the st.cache_data cache.
SelectYear ==
    /\ Rendered
    /\ \E y \in Range(available_years(df_pred)) :
          /\ y # Val(year)
          /\ RunScript(df_pred, df_hist, y, Val(departamento), Val(sexo))
    /\ UNCHANGED << csv_pred, csv_hist, df_pred, df_hist >>

\* A change of the department selectbox (lines 121-126)
SelectDepartamento ==
    /\ Rendered
    /\ \E d \in Range(available_departments(df_pred)) :
          /\ d # Val(departamento)
          /\ RunScript(df_pred, df_hist, Val(year), d, Val(sexo))
    /\ UNCHANGED << csv_pred, csv_hist, df_pred, df_hist >>

\* A change of the sex selectbox (lines 128-133)
SelectSexo ==
    /\ Rendered
    /\ \E s \in Range(available_sex(df_pred)) :
          /\ s # Val(sexo)
          /\ RunScript(df_pred, df_hist, Val(year), Val(departamento), s)
    /\ UNCHANGED << csv_pred, csv_hist, df_pred, df_hist >>

Next == FirstRun \/ SelectYear \/ SelectDepartamento \/ SelectSexo

Spec == Init /\ [][Next]_vars

(***************************************************************************)
(* What the claims speak of, read from the state.                          *)
(***************************************************************************)
Evaluated == outcome = "found"

\* every case count of the selected history is one the data model allows
CountsInRange == \A i \in 1..Len(hist_data) : hist_data[i].CasosEstimados >= 0

\* the forecast rows of the file for the selected key
SelectedRows ==
    SelectSeq(df_pred, LAMBDA r : /\ r.Anio = Val(year)
                                  /\ r.Departamento = Val(departamento)
                                  /\ r.Sexo = Val(sexo))

\* the case counts of the selected history, their number, their sum, and
\* n * (n - 1) * variance
HistCasos == Column(hist_data, "CasosEstimados")
HistN == Len(hist_data)
HistSum == Sum(HistCasos)
HistSpread == HistN * SumSq(HistCasos) - HistSum * HistSum

\* |p / scale - mean| / stdDev < t, with the quotient taken as 0 when stdDev
\* is 0 or undefined (a single row)
DevsBelow(p, scale, t) ==
    \/ HistN = 1
    \/ HistSpread = 0
    \/ (HistN - 1) * (HistN * p - scale * HistSum) * (HistN * p - scale * HistSum)
         < t * t * scale * scale * HistN * HistSpread

TierOf(p, scale) ==
    IF DevsBelow(p, scale, 1) THEN "Bajo"
    ELSE IF DevsBelow(p, scale, 2) THEN "Moderado"
    ELSE "Alto"

\* the alert recomputed from the history: deviationsFromMean >= 1
RecomputedAlert == ~DevsBelow(Val(casos_pred), 1, 1)

(***************************************************************************)
(* C1.  For every evaluated query the reported alert is true exactly when  *)
(* deviationsFromMean >= 1, that is exactly when the tier is Moderate or   *)
(* High.  The script reports the Alerta cell of the forecast row, so this  *)
(* is violated.                                                            *)
(***************************************************************************)
C1_AlertIsComplementOfLow ==
    (Evaluated /\ CountsInRange) =>
        /\ Val(alerta) <=> RecomputedAlert
        /\ Val(alerta) <=> Val(riesgo) \in {"Moderado", "Alto"}
        /\ (Val(estado) = "ALERTA") <=> Val(riesgo) \in {"Moderado", "Alto"}

(***************************************************************************)
(* C2.  A forecast row with an empty history for its (region, sex) ends in *)
(* a typed no-baseline result: no tier and no uncaught fault.  The script  *)
(* raises NameError at line 370, so this is violated.                      *)
(***************************************************************************)
C2_EmptyHistoryIsTypedResult ==
    (Rendered /\ current_pred # <<>> /\ hist_data = <<>>) =>
        /\ outcome # "fault"
        /\ riesgo = None

(***************************************************************************)
(* C3.  Whenever the supplied alert flag differs from the recomputed       *)
(* alert, a DataConsistencyWarning is reported and the alert shown is the  *)
(* recomputed one.  The script reports nothing and shows the supplied      *)
(* flag, so this is violated.                                              *)
(***************************************************************************)
C3_DisagreementIsReported ==
    (Evaluated /\ CountsInRange /\ SelectedRows[1].Alerta # RecomputedAlert) =>
        /\ "DataConsistencyWarning" \in mensajes
        /\ Val(alerta) = RecomputedAlert
        /\ Val(estado) = Estado(RecomputedAlert)

(***************************************************************************)
(* C4.  The fused series of a query is sorted ascending by year and holds  *)
(* no two points with the same (year, origin).  Line 188 passes the        *)
(* forecast rows of both sexes of the region, so the second part is        *)
(* violated.                                                               *)
(***************************************************************************)
FusedSorted ==
    \A i \in 1..Len(df_completo), j \in 1..Len(df_completo) :
        i < j => df_completo[i].Anio <= df_completo[j].Anio

FusedNoDuplicates ==
    \A i \in 1..Len(df_completo), j \in 1..Len(df_completo) :
        i # j => << df_completo[i].Anio, df_completo[i].Tipo >>
                   # << df_completo[j].Anio, df_completo[j].Tipo >>

C4_FusedSortedNoDuplicates ==
    Evaluated => FusedSorted /\ FusedNoDuplicates

PointsOf(y, t) ==
    Cardinality({i \in 1..Len(df_completo) :
                    df_completo[i].Anio = y /\ df_completo[i].Tipo = t})

WholeCases(h) == CHOOSE k \in 0..h : k * PredScale <= h /\ h < (k + 1) * PredScale

C7_NotFoundListsYears ==
    /\ Rendered => (outcome = "notfound" <=> SelectedRows = <<>>)
    /\ outcome = "notfound" =>
        LET shown == Val(anios_con_datos)
        IN /\ MsgNotFound \in mensajes
           /\ \A i \in 1..Len(shown), j \in 1..Len(shown) :
                 i < j => shown[i] < shown[j]
           /\ Range(shown) =
                 {df_pred[i].Anio : i \in
                     {k \in 1..Len(df_pred) :
                         /\ df_pred[k].Departamento = Val(departamento)
                         /\ df_pred[k].Sexo = Val(sexo)}}
           /\ casos_pred = None
           /\ riesgo = None
           /\ alerta = None
           /\ estado = None

\* two years listed, and the file does not hold them in ascending order
C7_Witness ==
    /\ outcome = "notfound"
    /\ Len(Val(anios_con_datos)) >= 2
    /\ Val(available_years_dept) # Val(anios_con_datos)

(***************************************************************************)
(* C8 as stated.  The signed deviation and deviationPct are taken against  *)
(* the mean of the selected history: deviation = predicted - stats.mean,   *)
(* whatever historicalMean the forecast row carries.                       *)
(***************************************************************************)
C8_DeviationAgainstStatsMean ==
    (Evaluated /\ CountsInRange) =>
        /\ HistN * Val(diferencia) = HistN * Val(casos_pred) - HistSum
        /\ Val(porcentaje)[1] * HistSum =
             PctFactor * (HistN * Val(casos_pred) - HistSum) * Val(porcentaje)[2]

(***************************************************************************)
(* C8 as amended.  The signed deviation and deviationPct are taken against *)
(* the historicalMean carried on the selected forecast row (PromHist):     *)
(* deviation = int(predicted) - historicalMean and deviationPct =          *)
(* deviation / historicalMean * 100; deviationsFromMean and the tier use   *)
(* the same int(predicted) with the mean of the selected history.          *)
(***************************************************************************)
C8_DeviationAgainstPromHist ==
    outcome \in {"found", "fault"} =>
        LET m == SelectedRows[1].PromHist
            p == Val(casos_pred)
            pct == Val(porcentaje)
        IN /\ Val(prom_hist_pred) = m
           /\ Val(diferencia) = p - m
           /\ m # 0 => pct[2] # 0 /\ pct[1] * m = PctFactor * (p - m) * pct[2]
           /\ Evaluated => Val(riesgo) = TierOf(p, 1)

\* the row's historicalMean is not the mean of the history
C8_Witness ==
    /\ Evaluated
    /\ HistN * SelectedRows[1].PromHist # HistSum
    /\ Val(diferencia) # 0
    /\ HistN * Val(diferencia) # HistN * Val(casos_pred) - HistSum

(***************************************************************************)
(* C9 as stated.  When the mean of the reference statistics is 0,          *)
(* deviationPct is 0; when their stdDev is 0, deviationsFromMean is 0 and  *)
(* the tier is Low; no fault is raised.                                    *)
(***************************************************************************)
StdDevIsZero == HistN = 1 \/ HistSpread = 0

C9_GuardOnStatsMean ==
    (Evaluated /\ CountsInRange) =>
        /\ HistSum = 0 => Val(porcentaje)[1] = 0
        /\ StdDevIsZero => Val(desviaciones)[1] = 0 /\ Val(riesgo) = "Bajo"

(***************************************************************************)
(* C9 as amended.  When the historicalMean carried on the forecast row,    *)
(* the mean deviationPct is taken against, is 0, deviationPct is 0; when   *)
(* the stdDev of the history is 0 or undefined (a single row),             *)
(* deviationsFromMean is 0 and the tier is Low; no division by zero        *)
(* happens for any predicted value.                                        *)
(***************************************************************************)
C9_GuardOnDivisors ==
    /\ outcome \in {"found", "fault"} =>
          /\ Val(porcentaje)[2] # 0
          /\ Val(prom_hist_pred) = 0 => Val(porcentaje)[1] = 0
    /\ Evaluated =>
          /\ Val(desviaciones)[2] # 0
          /\ StdDevIsZero => Val(desviaciones)[1] = 0 /\ Val(riesgo) = "Bajo"

\* stats{mean = 0, stdDev = 0} and predicted = 5
C9_Witness ==
    /\ Evaluated
    /\ Val(prom_hist_pred) = 0
    /\ HistN >= 2
    /\ HistSum = 0
    /\ HistSpread = 0
    /\ Val(casos_pred) = 5
    /\ Val(riesgo) = "Bajo"

(***************************************************************************)
(* C10.  A historical row with a negative or non-finite case count is      *)
(* excluded from aggregation and reported: the statistics of a (region,    *)
(* sex) are those of its rows with a finite count >= 0.  load_data drops   *)
(* only the cells that are no number and reports nothing, so this is       *)
(* violated.                                                               *)
(***************************************************************************)
WellFormed(r) == Len(r.CasosEstimados) = 1 /\ r.CasosEstimados[1] >= 0

ValidCasos ==
    LET rows == SelectSeq(csv_hist, LAMBDA r :
                    /\ r.Departamento = Val(departamento)
                    /\ r.Sexo = Val(sexo)
                    /\ WellFormed(r))
    IN [i \in 1..Len(rows) |-> rows[i].CasosEstimados[1]]

C10_MalformedRowsExcluded ==
    Evaluated =>
        /\ ValidCasos # <<>>
        /\ Val(casos_avg) = Mean(ValidCasos)
        /\ Val(casos_std) = Std(ValidCasos)
        /\ Val(casos_min) = SeqMin(ValidCasos)
        /\ Val(casos_max) = SeqMax(ValidCasos)

====
